---- MODULE Spec2Model ----
(***************************************************************************)
(* rstcheck: checks the code blocks of reStructuredText documents.         *)
(*                                                                         *)
(* A run (main) takes the files of the command line one at a time. check   *)
(* reads and parses a file; the writer's translate walks the document tree *)
(* with a CheckTranslator, whose visit_literal_block checks every literal  *)
(* block that carries the 'code-block' class. The walk is modelled one     *)
(* node visit at a time. The parser and the external checkers are the      *)
(* environment: a document carries the highest system-message level the    *)
(* parser reports for it, and a code block carries what happens when its   *)
(* checker is launched on it.                                              *)
(***************************************************************************)
EXTENDS Integers, Sequences, FiniteSets

\* Number of files on the command line, at most.
MaxFiles == 2
\* Number of top-level nodes read in one run, over all its documents, at most;
\* a document that parses has at least one.
MaxNodes == 3

VARIABLES
    isatty,           \* sys.stderr.isatty()
    strict_rst,       \* args.strict_rst
    strict_warnings,  \* args.strict_warnings
    files,            \* len(args.files)
    pc,               \* "main", "walk", "done" or "crashed"
    idx,              \* number of files main's loop has started on
    docs,             \* the trees of the files read so far, in file order
    rejected,         \* the files the parser raised SystemMessage for
    todo,             \* the nodes the walk has still to visit, next first
    vsummary,         \* visitor.summary of the current document
    summary,          \* main's summary
    stderr,           \* the lines written to standard error
    spawned,          \* the checker processes started (or attempted)
    oserror,          \* the blocks whose check raised OSError, and where
    tempfiles,        \* the temporary files that exist
    ntemp,            \* number of temporary files created
    failures,         \* main's failures
    exitStatus        \* the exit status of the process, -1 while it runs

vars == <<isatty, strict_rst, strict_warnings, files, pc, idx, docs, rejected,
          todo, vsummary, summary, stderr, spawned, oserror, tempfiles, ntemp,
          failures, exitStatus>>

GREEN == "GREEN"
RED == "RED"

----------------------------------------------------------------------------
(* The inputs.                                                             *)

\* What launching the checker on a block does: the process exits with
\* status zero, exits with a nonzero status, or cannot be started (OSError).
Procs == {"zero", "nonzero", "oserror"}

\* What materializing the snippet of a block does: the file is written, or
\* NamedTemporaryFile raises OSError and no file is made, or the file is made
\* and write or flush raises OSError.
TempOutcomes == {"written", "nofile", "nowrite"}

PlainLiteral == [kind |-> "literal_block", classes |-> {}, language |-> "", proc |-> "zero"]
TextNode == [kind |-> "Text", classes |-> {}, language |-> "", proc |-> "zero"]

\* The literal block CodeBlockDirective.run builds for a directive whose
\* first argument is language ('' when the directive has no argument).
CodeBlock(language, proc) ==
    [kind |-> "literal_block", classes |-> {"code-block"},
     language |-> language, proc |-> proc]

\* The top-level nodes documents are made of.
NodeSet ==
    { PlainLiteral,
      CodeBlock("c", "zero"), CodeBlock("cpp", "nonzero"),
      CodeBlock("python", "zero"), CodeBlock("bash", "oserror"),
      CodeBlock("ruby", "zero"), CodeBlock("Python", "zero"),
      CodeBlock("", "zero") }

\* Highest system-message level the parser reports for a document: none (0),
\* a warning (2) or a severe error (4).
Levels == {0, 2, 4}

SeqsUpTo(S, n) == UNION { [1..k -> S] : k \in 0..n }

\* The trees a document can parse to: its top-level nodes, in source order.
TreesUpTo(n) == SeqsUpTo(NodeSet, n) \ {<<>>}

RECURSIVE NodesRead(_)
NodesRead(ds) ==
    IF ds = <<>> THEN 0 ELSE Len(Head(ds)) + NodesRead(Tail(ds))

----------------------------------------------------------------------------
(* Helpers of the program.                                                 *)

\* A line print writes to standard error: no colour.
PrintLine(kind, file, line) ==
    [kind |-> kind, color |-> "", file |-> file, line |-> line]

\* A line inform writes: coloured only when standard error is a terminal.
InformLine(kind, color, file, line) ==
    [kind |-> kind, color |-> IF isatty THEN color ELSE "",
     file |-> file, line |-> line]

NodeHasClass_Any(node, cname) == TRUE

NodeHasClass(node, cname) == cname \in node.classes

ErrorFlag(strict) == IF strict THEN <<"-Werror">> ELSE <<>>

NotFound == [found |-> FALSE, extension |-> "", arguments |-> <<>>]

Found(extension, arguments) ==
    [found |-> TRUE, extension |-> extension, arguments |-> arguments]

Lookup_FlagAll(language, strict) ==
    CASE language = "bash" -> Found(".bash", <<"bash", "-n">> \o ErrorFlag(strict))
      [] language = "c" ->
            Found(".c", <<"gcc", "-fsyntax-only", "-O3", "-std=c99",
                          "-pedantic", "-Wall", "-Wextra">> \o ErrorFlag(strict))
      [] language = "cpp" ->
            Found(".cpp", <<"g++", "-std=c++0x", "-pedantic", "-fsyntax-only",
                            "-O3", "-Wall", "-Wextra">> \o ErrorFlag(strict))
      [] language = "python" ->
            Found(".py", <<"python", "-m", "compileall", "-q">> \o ErrorFlag(strict))
      [] OTHER -> NotFound

Lookup(language, strict) ==
    CASE language = "bash" -> Found(".bash", <<"bash", "-n">>)
      [] language = "c" ->
            Found(".c", <<"gcc", "-fsyntax-only", "-O3", "-std=c99",
                          "-pedantic", "-Wall", "-Wextra">> \o ErrorFlag(strict))
      [] language = "cpp" ->
            Found(".cpp", <<"g++", "-std=c++0x", "-pedantic", "-fsyntax-only",
                            "-O3", "-Wall", "-Wextra">> \o ErrorFlag(strict))
      [] language = "python" ->
            Found(".py", <<"python", "-m", "compileall", "-q">>)
      [] OTHER -> NotFound

HaltLevel(strict) == IF strict THEN 1 ELSE 4

\* publish_string raises SystemMessage for a document with a system message
\* at or above the halt level.
Halts(level, strict) == level >= HaltLevel(strict)

Children(node) == IF node.kind = "Text" THEN <<>> ELSE <<TextNode>>

Positioned(nodes, file) ==
    [i \in 1..Len(nodes) |-> [node |-> nodes[i], file |-> file, line |-> i]]

ChildItems(item) ==
    [i \in 1..Len(Children(item.node)) |->
        [node |-> Children(item.node)[i], file |-> item.file, line |-> item.line]]

RECURSIVE CountFailures(_)
CountFailures(s) ==
    IF s = <<>> THEN 0
    ELSE (IF Head(s) THEN 0 ELSE 1) + CountFailures(Tail(s))

ExitCode_Count(n) == n

ExitCode(n) == IF n # 0 THEN 1 ELSE 0

\* list += list, as translate and main add a summary to theirs.
Extend_Front(s, t) == t \o s

Extend(s, t) == s \o t

----------------------------------------------------------------------------
Init ==
    /\ isatty \in BOOLEAN
    /\ strict_rst \in BOOLEAN
    /\ strict_warnings \in BOOLEAN
    /\ files \in 1..MaxFiles
    /\ pc = "main"
    /\ idx = 0
    /\ docs = <<>>
    /\ rejected = {}
    /\ todo = <<>>
    /\ vsummary = <<>>
    /\ summary = <<>>
    /\ stderr = <<>>
    /\ spawned = <<>>
    /\ oserror = <<>>
    /\ tempfiles = {}
    /\ ntemp = 0
    /\ failures = 0
    /\ exitStatus = -1

\* main's loop calls check on the next file; the file is read and parsed, and
\* the writer starts the walk with a new CheckTranslator.
CheckParsed ==
    /\ pc = "main"
    /\ idx < files
    /\ \E level \in Levels,
          tree \in TreesUpTo(MaxNodes - NodesRead(docs) - (files - idx - 1)) :
          /\ ~Halts(level, strict_rst)
          /\ docs' = Append(docs, tree)
          /\ todo' = Positioned(tree, idx + 1)
    /\ idx' = idx + 1
    /\ vsummary' = <<>>
    /\ pc' = "walk"
    /\ UNCHANGED <<isatty, strict_rst, strict_warnings, files, rejected, summary,
                   stderr, spawned, oserror, tempfiles, ntemp, failures,
                   exitStatus>>

\* The parser raises SystemMessage: check returns False, and main's
\* summary += False raises TypeError, which nothing catches. The interpreter
\* ends the process with status 1; no tree exists for the file.
CheckHalted ==
    /\ pc = "main"
    /\ idx < files
    /\ \E level \in Levels : Halts(level, strict_rst)
    /\ idx' = idx + 1
    /\ docs' = Append(docs, <<>>)
    /\ rejected' = rejected \cup {idx + 1}
    /\ pc' = "crashed"
    /\ exitStatus' = 1
    /\ UNCHANGED <<isatty, strict_rst, strict_warnings, files, todo, vsummary,
                   summary, stderr, spawned, oserror, tempfiles, ntemp, failures>>

\* The temporary file of a block is deleted when the NamedTemporaryFile object
\* is released, which is when the frame of visit_literal_block is.
ReleaseTemp_Keep(fs, f) == fs

ReleaseTemp(fs, f) == fs \ {f}

\* What visit_literal_block appends to the summary for a checker's exit.
Outcome_Truthy(proc) == proc = "nonzero"

Outcome(proc) == proc = "zero"

\* What visit_literal_block appends for a language without a checker.
UnknownOutcome_Never(strict) == <<>>

UnknownOutcome(strict) == IF strict THEN <<FALSE>> ELSE <<>>

\* The lines visit_literal_block writes for a block that has a checker.
CheckedLines(item, proc) ==
    <<PrintLine("raw", item.file, item.line),
      InformLine("Okay", GREEN, item.file, item.line)>>
    \o (IF proc = "nonzero"
        THEN <<InformLine("error", RED, item.file, item.line)>>
        ELSE <<>>)

\* visit_literal_block on the next node of the walk, a literal block; temp is
\* what materializing the snippet does, if it comes to that.
VisitLiteralBlock ==
    /\ pc = "walk"
    /\ todo # <<>>
    /\ Head(todo).node.kind = "literal_block"
    /\ \E temp \in TempOutcomes :
       LET item == Head(todo)
           node == item.node
           result == Lookup(node.language, strict_warnings)
           temporary_file == <<ntemp + 1, result.extension>>
           Raised(at) == Append(oserror, [file |-> item.file, line |-> item.line,
                                          at |-> at])
       IN  IF ~NodeHasClass(node, "code-block")
           THEN \* return: the walk goes on into the node's children
                /\ todo' = ChildItems(item) \o Tail(todo)
                /\ UNCHANGED <<vsummary, stderr, spawned, oserror, tempfiles,
                               ntemp, pc, exitStatus>>
           ELSE IF result.found /\ temp = "nofile"
           THEN \* NamedTemporaryFile raises OSError, which nothing catches:
                \* the interpreter ends the process with status 1
                /\ oserror' = Raised("NamedTemporaryFile")
                /\ pc' = "crashed"
                /\ exitStatus' = 1
                /\ UNCHANGED <<vsummary, stderr, spawned, tempfiles, ntemp, todo>>
           ELSE IF result.found /\ temp = "nowrite"
           THEN \* write or flush raises OSError, which nothing catches
                /\ ntemp' = ntemp + 1
                /\ tempfiles' = ReleaseTemp(tempfiles \cup {temporary_file},
                                            temporary_file)
                /\ oserror' = Raised("write")
                /\ pc' = "crashed"
                /\ exitStatus' = 1
                /\ UNCHANGED <<vsummary, stderr, spawned, todo>>
           ELSE IF result.found
           THEN /\ ntemp' = ntemp + 1
                /\ tempfiles' = ReleaseTemp(tempfiles \cup {temporary_file},
                                            temporary_file)
                /\ stderr' = stderr \o CheckedLines(item, node.proc)
                /\ spawned' = Append(spawned,
                                     [arguments |-> result.arguments,
                                      name |-> temporary_file,
                                      language |-> node.language,
                                      proc |-> node.proc,
                                      file |-> item.file, line |-> item.line])
                /\ IF node.proc = "oserror"
                   THEN \* Popen raises OSError, which nothing catches: the
                        \* interpreter ends the process with status 1
                        /\ oserror' = Raised("Popen")
                        /\ pc' = "crashed"
                        /\ exitStatus' = 1
                        /\ UNCHANGED <<vsummary, todo>>
                   ELSE /\ vsummary' = Append(vsummary, Outcome(node.proc))
                        /\ todo' = Tail(todo)
                        /\ UNCHANGED <<oserror, pc, exitStatus>>
           ELSE /\ stderr' = Append(stderr,
                                    InformLine("Unknown language", RED,
                                               item.file, item.line))
                /\ vsummary' = Extend(vsummary, UnknownOutcome(strict_warnings))
                /\ todo' = Tail(todo)
                /\ UNCHANGED <<spawned, oserror, tempfiles, ntemp, pc, exitStatus>>
    /\ UNCHANGED <<isatty, strict_rst, strict_warnings, files, idx, docs, rejected,
                   summary, failures>>

\* unknown_visit on the next node of the walk, any other node.
UnknownVisit ==
    /\ pc = "walk"
    /\ todo # <<>>
    /\ Head(todo).node.kind # "literal_block"
    /\ todo' = ChildItems(Head(todo)) \o Tail(todo)
    /\ UNCHANGED <<isatty, strict_rst, strict_warnings, files, pc, idx, docs,
                   rejected, vsummary, summary, stderr, spawned, oserror,
                   tempfiles, ntemp, failures, exitStatus>>

\* The walk is over: translate adds the visitor's summary to the writer's,
\* check returns it and main adds it to its own.
TranslateReturn ==
    /\ pc = "walk"
    /\ todo = <<>>
    /\ summary' = Extend(summary, Extend(<<>>, vsummary))
    /\ pc' = "main"
    /\ UNCHANGED <<isatty, strict_rst, strict_warnings, files, idx, docs, rejected,
                   todo, vsummary, stderr, spawned, oserror, tempfiles, ntemp,
                   failures, exitStatus>>

\* After the last file main counts the failures, reports them and returns.
MainReturn ==
    /\ pc = "main"
    /\ idx = files
    /\ failures' = CountFailures(summary)
    /\ stderr' = Append(stderr,
                        InformLine("failure(s)",
                                   IF failures' # 0 THEN RED ELSE GREEN,
                                   0, failures'))
    /\ exitStatus' = ExitCode(failures')
    /\ pc' = "done"
    /\ UNCHANGED <<isatty, strict_rst, strict_warnings, files, idx, docs, rejected,
                   todo, vsummary, summary, spawned, oserror, tempfiles, ntemp>>

Next ==
    \/ CheckParsed
    \/ CheckHalted
    \/ VisitLiteralBlock
    \/ UnknownVisit
    \/ TranslateReturn
    \/ MainReturn

Spec == Init /\ [][Next]_vars
----------------------------------------------------------------------------
(* What the documents read so far contain.                                 *)

Known == {"bash", "c", "cpp", "python"}

IsCodeBlock(n) == n.kind = "literal_block" /\ "code-block" \in n.classes

\* The code blocks of the run, as <<file, line>>.
CodeBlocks ==
    UNION { { <<f, i>> : i \in { j \in 1..Len(docs[f]) : IsCodeBlock(docs[f][j]) } }
            : f \in 1..Len(docs) }

NodeAt(b) == docs[b[1]][b[2]]

KnownBlocks == { b \in CodeBlocks : NodeAt(b).language \in Known }
UnknownBlocks == CodeBlocks \ KnownBlocks
NonzeroBlocks == { b \in KnownBlocks : NodeAt(b).proc = "nonzero" }

BlocksOf(S, f) == { b \in S : b[1] = f }

\* The lines standard error holds for the block at b, in order.
LinesOf(b) ==
    LET About(l) == l.file = b[1] /\ l.line = b[2]
    IN  SelectSeq(stderr, About)

Kinds(ls) == [k \in 1..Len(ls) |-> ls[k].kind]

SpawnedFor(b) ==
    { k \in 1..Len(spawned) : spawned[k].file = b[1] /\ spawned[k].line = b[2] }

TraversalFinished == pc = "walk" /\ todo = <<>>

IsPrefix(s, t) == Len(s) <= Len(t) /\ SubSeq(t, 1, Len(s)) = s

----------------------------------------------------------------------------
(* C1 *)

\* C1 as stated: when the traversal of a document has finished, the visitor's
\* summary has one entry for each literal block of the document with the
\* 'code-block' class, whatever its language.
C1_OneOutcomePerCodeBlock ==
    TraversalFinished =>
        Len(vsummary) = Cardinality(BlocksOf(CodeBlocks, idx))

\* C1 amended: when the traversal of a document has finished, the visitor's
\* summary has one entry for each code block whose language has a checker and,
\* only under strict-warnings, one for each code block whose language has
\* none; no other node adds an entry.
C1_OutcomesRecorded ==
    TraversalFinished =>
        Len(vsummary) =
            Cardinality(BlocksOf(KnownBlocks, idx))
            + (IF strict_warnings
               THEN Cardinality(BlocksOf(UnknownBlocks, idx)) ELSE 0)

C1_Witness ==
    /\ TraversalFinished
    /\ ~strict_warnings
    /\ BlocksOf(KnownBlocks, idx) # {}
    /\ BlocksOf(UnknownBlocks, idx) # {}
    /\ \E i \in 1..Len(docs[idx]) : docs[idx][i] = PlainLiteral
    /\ Len(vsummary) = 1

----------------------------------------------------------------------------
(* C2 *)

\* C2 as stated: a document the parser rejects does not stop the run: the
\* run does not abort, and when it ends every file has been taken, the last
\* line written is the failure count and the exit status is 1.
C2_RejectedDocumentRunCompletes ==
    rejected # {} =>
        /\ pc # "crashed"
        /\ pc = "done" =>
            /\ idx = files
            /\ stderr # <<>>
            /\ stderr[Len(stderr)].kind = "failure(s)"
            /\ exitStatus = 1

----------------------------------------------------------------------------
(* C3 *)

\* C3 as stated: a checker that cannot be launched, or a snippet that cannot
\* be written to its temporary file, gives a failed outcome for its block and
\* nothing more: the run does not abort, and the failure is in the summary of
\* the document once the block has been visited.
C3_LaunchFailureIsLocal ==
    \A k \in 1..Len(oserror) :
        /\ pc # "crashed"
        /\ (oserror[k].file = idx /\ pc = "walk") =>
               FALSE \in { vsummary[j] : j \in 1..Len(vsummary) }
        /\ pc = "done" => failures >= 1

----------------------------------------------------------------------------
(* C4 *)

\* C4: when main returns, the exit status is 0 if the summary accumulated over
\* all the files holds no failure, and 1 otherwise.
C4_ExitStatus ==
    pc = "done" =>
        /\ idx = files
        /\ exitStatus \in {0, 1}
        /\ exitStatus = 0 <=> \A j \in 1..Len(summary) : summary[j]

C4_Witness ==
    /\ pc = "done"
    /\ files = 2
    /\ Cardinality({ j \in 1..Len(summary) : ~summary[j] }) = 2
    /\ exitStatus = 1

----------------------------------------------------------------------------
(* C5 *)

\* C5: a code block whose language is empty or has no checker is never given
\* to a checker and, once its document has been walked, has exactly one line
\* on standard error, the unknown-language report; a run that ends with no
\* checker failure and at least one such block exits 1 under strict-warnings
\* and 0 without it.
C5_UnknownLanguage ==
    /\ \A b \in UnknownBlocks : SpawnedFor(b) = {}
    /\ pc \in {"main", "done"} =>
          \A b \in UnknownBlocks : Kinds(LinesOf(b)) = <<"Unknown language">>
    /\ (pc = "done" /\ UnknownBlocks # {} /\ NonzeroBlocks = {}) =>
          exitStatus = (IF strict_warnings THEN 1 ELSE 0)

C5_Witness ==
    /\ pc = "done"
    /\ strict_warnings
    /\ NonzeroBlocks = {}
    /\ \E b \in UnknownBlocks : NodeAt(b).language = ""
    /\ \E b \in UnknownBlocks : NodeAt(b).language = "ruby"
    /\ exitStatus = 1

----------------------------------------------------------------------------
(* C6 *)

ExampleTree ==
    <<CodeBlock("c", "zero"), CodeBlock("cpp", "nonzero"), CodeBlock("ruby", "zero")>>

\* C6: the failure count at the end of a run, which is the count of the last
\* line written, is the number of blocks whose checker exited nonzero plus,
\* under strict-warnings only, the number of blocks without a checker; the
\* document with a passing C block, a failing C++ block and a 'ruby' block
\* gives 1 without strict-warnings and 2 with it, and exit status 1 in both.
C6_FailureCount ==
    pc = "done" =>
        /\ failures = Cardinality(NonzeroBlocks)
                      + (IF strict_warnings THEN Cardinality(UnknownBlocks) ELSE 0)
        /\ stderr[Len(stderr)].kind = "failure(s)"
        /\ stderr[Len(stderr)].line = failures
        /\ docs = <<ExampleTree>> =>
              /\ failures = (IF strict_warnings THEN 2 ELSE 1)
              /\ exitStatus = 1

C6_Witness ==
    /\ pc = "done"
    /\ docs = <<ExampleTree>>
    /\ ~strict_warnings
    /\ failures = 1
    /\ exitStatus = 1

----------------------------------------------------------------------------
(* C7 *)

\* C7 as stated: a block whose checker ran has its raw text and then one
\* verdict line on standard error: 'Okay' if the checker exited with status
\* zero, the error line if it exited nonzero.
C7_OneVerdictLine ==
    \A k \in 1..Len(spawned) :
        LET e == spawned[k]
            ls == Kinds(LinesOf(<<e.file, e.line>>))
        IN  /\ e.proc = "zero" => ls = <<"raw", "Okay">>
            /\ e.proc = "nonzero" => ls = <<"raw", "error">>

----------------------------------------------------------------------------
(* C8 *)

\* C8: between node visits and at the end of the run, however it ends, no
\* temporary file exists, although one was created for every block given to
\* a checker and for the block whose snippet could not be written.
C8_NoTemporaryFileLeft ==
    /\ tempfiles = {}
    /\ ntemp = Len(spawned)
               + Cardinality({ k \in 1..Len(oserror) : oserror[k].at = "write" })
    /\ Cardinality({ spawned[k].name : k \in 1..Len(spawned) }) = Len(spawned)

C8_Witness ==
    /\ pc = "crashed"
    /\ ntemp = 2
    /\ Len(spawned) = 2
    /\ Len(oserror) = 1
    /\ spawned[1].proc = "nonzero"
    /\ spawned[2].proc = "oserror"
    /\ oserror[1].at = "Popen"
    /\ tempfiles = {}

----------------------------------------------------------------------------
(* C9 *)

Tags == { n.language : n \in NodeSet }

\* C9: the checker command of 'c' and 'cpp' ends with -Werror under
\* strict-warnings and has no -Werror without it; the commands of 'bash' and
\* 'python' are the same in both modes; the extension of a language does not
\* depend on the mode; and no tag but these four has a checker.
C9_Registry ==
    /\ \A k \in 1..Len(spawned) :
          LET e == spawned[k]
              n == Len(e.arguments)
              flagged == \E j \in 1..n : e.arguments[j] = "-Werror"
          IN  /\ e.language \in Known
              /\ e.language = "bash" =>
                    e.arguments = <<"bash", "-n">> /\ e.name[2] = ".bash"
              /\ e.language = "python" =>
                    /\ e.arguments = <<"python", "-m", "compileall", "-q">>
                    /\ e.name[2] = ".py"
              /\ e.language = "c" =>
                    /\ e.arguments[1] = "gcc" /\ e.name[2] = ".c"
                    /\ flagged <=> strict_warnings
                    /\ strict_warnings => e.arguments[n] = "-Werror"
                    /\ n = (IF strict_warnings THEN 8 ELSE 7)
              /\ e.language = "cpp" =>
                    /\ e.arguments[1] = "g++" /\ e.name[2] = ".cpp"
                    /\ flagged <=> strict_warnings
                    /\ strict_warnings => e.arguments[n] = "-Werror"
                    /\ n = (IF strict_warnings THEN 8 ELSE 7)
    /\ \A t \in Tags : Lookup(t, strict_warnings).found <=> t \in Known

C9_Witness ==
    /\ strict_warnings
    /\ \E k \in 1..Len(spawned) :
          /\ spawned[k].language = "c"
          /\ spawned[k].arguments[Len(spawned[k].arguments)] = "-Werror"
    /\ \E k \in 1..Len(spawned) :
          /\ spawned[k].language = "python"
          /\ spawned[k].arguments = <<"python", "-m", "compileall", "-q">>
    /\ \E b \in UnknownBlocks :
          /\ NodeAt(b).language = "Python"
          /\ Kinds(LinesOf(b)) = <<"Unknown language">>

----------------------------------------------------------------------------
(* C10 *)

\* The entry a node adds to the summary when it is visited, if any.
Recorded(n) ==
    IF ~IsCodeBlock(n) THEN <<>>
    ELSE IF n.language \in Known THEN <<n.proc = "zero">>
    ELSE IF strict_warnings THEN <<FALSE>> ELSE <<>>

RECURSIVE RecordedIn(_)
RecordedIn(tree) ==
    IF tree = <<>> THEN <<>> ELSE Recorded(Head(tree)) \o RecordedIn(Tail(tree))

RECURSIVE RecordedInAll(_)
RecordedInAll(ds) ==
    IF ds = <<>> THEN <<>> ELSE RecordedIn(Head(ds)) \o RecordedInAll(Tail(ds))

\* Number of top-level nodes of the current document visited so far.
Visited ==
    IF todo = <<>> THEN Len(docs[idx])
    ELSE IF Head(todo).node.kind = "Text" THEN Head(todo).line
    ELSE Head(todo).line - 1

OrderKept ==
    /\ pc = "walk" =>
          /\ vsummary = RecordedIn(SubSeq(docs[idx], 1, Visited))
          /\ summary = RecordedInAll(SubSeq(docs, 1, idx - 1))
    /\ pc \in {"main", "done"} => summary = RecordedInAll(docs)

AppendOnly ==
    /\ IsPrefix(summary, summary')
    /\ pc = "walk" => IsPrefix(vsummary, vsummary')

\* C10: the summary of a document holds the entries of its nodes in the order
\* of the walk, the summary of the run holds the summaries of the documents in
\* the order of the files, and a step only ever adds entries at the end.
C10_VisitOrder == []OrderKept /\ [][AppendOnly]_vars

C10_Witness ==
    /\ pc = "done"
    /\ Len(docs) = 2
    /\ summary = <<TRUE, FALSE, FALSE>>
    /\ Len(docs[1]) = 1
    /\ strict_warnings
====
